---- MODULE Spec2Model ----
(***************************************************************************)
(* Model of techcrunch_scraper.py: the crawl loop run_scraper with its     *)
(* two fetches, link discovery (parse_homepage) and the author chain of    *)
(* extract_article.                                                        *)
(*                                                                         *)
(* Strings are sequences of tokens.  A URL is a sequence such as           *)
(*   << "https://techcrunch.com", "/", "2", "0", "24/a/" >>                *)
(* whose concatenation is the URL's text; str.startswith is a prefix test  *)
(* on these sequences.  Byline texts are sequences of single characters.   *)
(***************************************************************************)
EXTENDS Integers, Sequences, FiniteSets, TLC

VARIABLES
    categories,      \* run_scraper argument: list of category names
    pc,              \* position in run_scraper
    ci,              \* index in categories of the category being crawled
    page,            \* loop variable of "for page in range(1, 334)"
    last_page,       \* last value of that range
    scraped_urls,    \* set of urls already written
    record_counter,  \* next sequence number
    out_f,           \* the lines written to the output file, in order
    html,            \* what the last listing fetch returned
    article_urls,    \* the links parse_homepage found on that page
    new_urls,        \* rest of the list "new_urls" still to iterate
    lastFetch,       \* the most recent call of fetch_html and its outcome
    fetchStatus,     \* per article url: fetched "never", "once" or "again"
    attempted,       \* indexes of the categories whose page 1 was requested
    stopReason,      \* per category index: why its page loop ended
    summary,         \* total printed by the final summary line
    ph_url, ph_html, ph_prefix, ph_links, ph_pc,   \* one call of parse_homepage
    ea_doc, ea_author, ea_pc,                      \* one call of extract_article
    eb_doc, eb_body, eb_consulted, eb_text, eb_pc, \* the body of extract_article
    nt_in, nt_once, nt_twice, nt_pc \* the text normalisation, applied twice

vars == << categories, last_page, pc, ci, page, scraped_urls, record_counter, out_f,
           html, article_urls, new_urls, lastFetch, fetchStatus, attempted,
           stopReason, summary,
           ph_url, ph_html, ph_prefix, ph_links, ph_pc,
           ea_doc, ea_author, ea_pc,
           eb_doc, eb_body, eb_consulted, eb_text, eb_pc,
           nt_in, nt_once, nt_twice, nt_pc >>

crawlVars == << categories, last_page, pc, ci, page, scraped_urls, record_counter, out_f,
                html, article_urls, new_urls, lastFetch, fetchStatus, attempted,
                stopReason, summary >>
phVars == << ph_url, ph_html, ph_prefix, ph_links, ph_pc >>
eaVars == << ea_doc, ea_author, ea_pc >>
ebVars == << eb_doc, eb_body, eb_consulted, eb_text, eb_pc >>
ntVars == << nt_in, nt_once, nt_twice, nt_pc >>

-----------------------------------------------------------------------------
(* Bounds of the model *)

\* longest category list given to run_scraper
MaxCategories == 2
\* most anchors in one document given to parse_homepage alone
MaxAnchors == 2
\* last value of "page" in the short crawls, which cut range(1, 334) to it
MaxPage == 3
\* longest text node of an article page
MaxText == 5
\* most elements of an article page that the body selectors can see
MaxElements == 2
\* longest string given to the text normalisation
MaxNorm == 6

-----------------------------------------------------------------------------
(* Strings *)

StartsWith(s, p) == Len(s) >= Len(p) /\ SubSeq(s, 1, Len(p)) = p

RECURSIVE Perms(_)
\* every order a list built from the set S can have
Perms(S) ==
    IF S = {} THEN { << >> }
    ELSE UNION { { << x >> \o p : p \in Perms(S \ {x}) } : x \in S }

RECURSIVE SeqsUpTo(_, _)
SeqsUpTo(S, n) ==
    IF n = 0 THEN { << >> }
    ELSE LET shorter == SeqsUpTo(S, n - 1)
         IN  shorter \cup { Append(s, x) : s \in shorter, x \in S }

-----------------------------------------------------------------------------
(* URLs *)

domain == "techcrunch.com"
Origin == "https://" \o domain
allowed_prefix == << Origin, "/", "2", "0" >>

\* the list of line 168, repeated when a longer list is asked for; a name
\* is used only to form the urls of its listing pages
CategoryAt(i) == IF i % 2 = 1 THEN "startups" ELSE "venture"
CategoryLists ==
    { [ i \in 1..n |-> CategoryAt(i) ] : n \in 0..MaxCategories }

homepage_url(category) == << Origin, "/", "category/", category, "/" >>

\* urljoin(base, href) for the shapes of href that occur: an absolute URL
\* replaces the base, a root-relative path keeps the base's origin, any other
\* path is appended to the base, which ends in "/"
Origins == { Origin, "https://other.example" }
IsAbsolute(href) == Len(href) > 0 /\ href[1] \in Origins
urljoin(base, href) ==
    IF IsAbsolute(href) THEN href
    ELSE IF Len(href) > 0 /\ href[1] = "/" THEN << base[1] >> \o href
    ELSE base \o href

PageUrl(category, p) ==
    IF p = 1 THEN homepage_url(category)
    ELSE urljoin(homepage_url(category), << "page/", ToString(p), "/" >>)

UrlA == << Origin, "/", "2", "0", "24/a/" >>
UrlB == << Origin, "/", "2", "0", "24/b/" >>
UrlOld == << Origin, "/", "1", "9", "99/x/" >>
UrlAbout == << Origin, "/", "about/" >>
UrlOther == << "https://other.example", "/", "2", "0", "24/a/" >>
RelA == << "/", "2", "0", "24/a/" >>

ArticleUrls == { UrlA, UrlB, UrlOld, UrlAbout, UrlOther }

-----------------------------------------------------------------------------
(* HTML documents and fetch_html *)

NoHref == << "no-href" >>
Hrefs == { UrlA, UrlB, RelA, UrlOld, UrlAbout, UrlOther, NoHref }

\* the tags enclosing an anchor, nearest first
AncestorChains == { << "div", "body" >>, << "footer", "body" >>,
                    << "li", "ul", "footer", "body" >> }

Anchors == [ href : Hrefs, ancestors : AncestorChains ]

\* what fetch_html returns: None after a RequestException, else resp.text,
\* which may be the empty string
None == [ kind |-> "None", empty |-> TRUE, anchors |-> << >> ]
EmptyText == [ kind |-> "str", empty |-> TRUE, anchors |-> << >> ]
Html(anchors) == [ kind |-> "str", empty |-> FALSE, anchors |-> anchors ]

Documents == { Html(a) : a \in SeqsUpTo(Anchors, MaxAnchors) }

\* the listing pages served during a crawl: at most two anchors, among two
\* article links, a link outside the allowed prefix and a footer link
ListingAnchors ==
    { [ href |-> UrlA, ancestors |-> << "div", "body" >> ],
      [ href |-> UrlB, ancestors |-> << "div", "body" >> ],
      [ href |-> UrlAbout, ancestors |-> << "div", "body" >> ],
      [ href |-> UrlB, ancestors |-> << "li", "ul", "footer", "body" >> ] }
ListingPages == { Html(a) : a \in SeqsUpTo(ListingAnchors, 2) }

\* Python's "not html"
Not(text) == text.kind = "None" \/ text.empty

-----------------------------------------------------------------------------
(* parse_homepage *)

\* find_parent looking at the enclosing tag only
find_parent_Nearest(a, tag) == a.ancestors[1] = tag

\* a.find_parent('footer'): some enclosing tag, at any depth, is a footer
find_parent(a, tag) == \E i \in DOMAIN a.ancestors : a.ancestors[i] = tag

\* soup.find_all('a', href=True), in document order
find_all_a_href(doc) ==
    SelectSeq(doc.anchors, LAMBDA a : a.href # NoHref)

NoPrefix == << >>

\* parse_homepage without the test of line 28
parse_homepage_AnyPrefix(url, doc, prefix) ==
    LET as == find_all_a_href(doc)
    IN  { urljoin(url, as[i].href) :
            i \in { j \in DOMAIN as : ~ find_parent(as[j], "footer") } }

parse_homepage(url, doc, prefix) ==
    LET as == find_all_a_href(doc)
    IN  { urljoin(url, as[i].href) :
            i \in { j \in DOMAIN as :
                       /\ ~ find_parent(as[j], "footer")
                       /\ ~ (prefix # NoPrefix
                             /\ ~ StartsWith(urljoin(url, as[j].href), prefix)) } }

-----------------------------------------------------------------------------
(* extract_article: the author *)

Chars == { "B", "y", " ", "o" }
Whitespace == { " ", "\n" }
Texts == SeqsUpTo(Chars, MaxText)

RECURSIVE lstrip(_, _)
\* str.lstrip(chars): drops leading characters while they belong to chars
lstrip(s, chars) ==
    IF s # << >> /\ Head(s) \in chars THEN lstrip(Tail(s), chars) ELSE s

RECURSIVE rstrip(_, _)
rstrip(s, chars) ==
    IF s # << >> /\ s[Len(s)] \in chars
    THEN rstrip(SubSeq(s, 1, Len(s) - 1), chars)
    ELSE s

\* str.strip()
strip(s) == rstrip(lstrip(s, Whitespace), Whitespace)

\* a tag, attribute or text node the page does not have
Absent == << "absent" >>

\* what the author chain reads of an article page: the content of the first
\* <meta name="author">, the text of the first <a rel="author">, the text of
\* the first anchor in .river-byline__authors, and the page's text node
ArticlePages ==
    [ meta : { Absent, << >>, << " " >>, << "o", " " >> },
      rel_author : { Absent, << " " >>, << "y" >> },
      byline_link : { Absent, << " " >>, << "B" >> },
      text : { Absent } \cup Texts ]

\* Tag.get_text(strip=True) of a tag holding one text node
get_text_strip(node) == IF node = Absent THEN << >> ELSE strip(node)

\* re.compile(r'^\s*By\s+').search(t)
MatchesBy(t) ==
    LET r == lstrip(t, Whitespace)
    IN  Len(r) >= 3 /\ r[1] = "B" /\ r[2] = "y" /\ r[3] \in Whitespace

\* soup.find(text=re.compile(r'^\s*By\s+')): None is Absent
find_by_text(doc) ==
    IF doc.text # Absent /\ MatchesBy(doc.text) THEN doc.text ELSE Absent

\* what each step of the chain assigns to author when it is the one taken
step1_meta(doc) == IF doc.meta = Absent THEN << >> ELSE strip(doc.meta)
step2_rel_author(doc) == get_text_strip(doc.rel_author)
step3_byline_link(doc) == get_text_strip(doc.byline_link)
step4_by_text(doc) ==
    IF find_by_text(doc) = Absent THEN << >>
    ELSE strip(lstrip(strip(find_by_text(doc)), { "B", "y", " " }))

\* lines 42-61
extract_author(doc) ==
    IF doc.meta # Absent /\ doc.meta # << >>
    THEN step1_meta(doc)
    ELSE IF doc.rel_author # Absent /\ get_text_strip(doc.rel_author) # << >>
    THEN step2_rel_author(doc)
    ELSE IF doc.byline_link # Absent /\ get_text_strip(doc.byline_link) # << >>
    THEN step3_byline_link(doc)
    ELSE step4_by_text(doc)

-----------------------------------------------------------------------------
(* extract_article: the text normalisation of lines 96-99 *)

Punctuation == { ".", ",", "!", "?", ":", ";" }

RECURSIVE sub_ws_runs(_)
\* re.sub(r'\s+', ' ', s): every run of white space becomes one space
sub_ws_runs(s) ==
    IF s = << >> THEN << >>
    ELSE IF Head(s) \in Whitespace
    THEN << " " >> \o sub_ws_runs(lstrip(s, Whitespace))
    ELSE << Head(s) >> \o sub_ws_runs(Tail(s))

RECURSIVE sub_ws_before(_, _)
\* re.sub(r'\s+([...])', r'\1', s): a run of white space that is followed
\* at once by a character of the class is removed; any other run stays
sub_ws_before(s, class) ==
    IF s = << >> THEN << >>
    ELSE IF Head(s) \in Whitespace
    THEN LET rest == lstrip(s, Whitespace)
         IN  IF rest # << >> /\ Head(rest) \in class
             THEN << Head(rest) >> \o sub_ws_before(Tail(rest), class)
             ELSE SubSeq(s, 1, Len(s) - Len(rest)) \o sub_ws_before(rest, class)
    ELSE << Head(s) >> \o sub_ws_before(Tail(s), class)

RECURSIVE sub_ws_after_paren(_)
\* re.sub(r'\(\s+', '(', s)
sub_ws_after_paren(s) ==
    IF s = << >> THEN << >>
    ELSE IF Head(s) = "("
    THEN << "(" >> \o sub_ws_after_paren(lstrip(Tail(s), Whitespace))
    ELSE << Head(s) >> \o sub_ws_after_paren(Tail(s))

RECURSIVE sub_punct_KeepsSpace(_)
\* line 97 with the replacement r'\1 ', which puts a space after the mark
sub_punct_KeepsSpace(s) ==
    IF s = << >> THEN << >>
    ELSE IF Head(s) \in Whitespace
    THEN LET rest == lstrip(s, Whitespace)
         IN  IF rest # << >> /\ Head(rest) \in Punctuation
             THEN << Head(rest), " " >> \o sub_punct_KeepsSpace(Tail(rest))
             ELSE SubSeq(s, 1, Len(s) - Len(rest)) \o sub_punct_KeepsSpace(rest)
    ELSE << Head(s) >> \o sub_punct_KeepsSpace(Tail(s))

\* line 97
sub_punct(s) == sub_ws_before(s, Punctuation)

\* lines 96-99, in their order
normalize(s) ==
    LET r1 == strip(sub_ws_runs(s))
        r2 == sub_punct(r1)
        r3 == sub_ws_after_paren(r2)
    IN  sub_ws_before(r3, { ")" })

-----------------------------------------------------------------------------
(* extract_article: the body container and clean_text, lines 66-99 *)

\* lines 66-73; a selector is the sequence of its tokens
selectors ==
    << << "div", ".", "article-content" >>,
       << "div", ".", "article__content" >>,
       << "div", ".", "article-content__container" >>,
       << "div", "[", "data-test-id", "=", "post-content", "]" >>,
       << "article" >>,
       << "main" >> >>

\* the tags the selectors tell apart: name, class list, data-test-id
ElementKinds ==
    { [ tag |-> "div", classes |-> { "article-content" }, data_test_id |-> "" ],
      [ tag |-> "div", classes |-> { "article__content" }, data_test_id |-> "" ],
      [ tag |-> "div", classes |-> { "article-content__container" },
        data_test_id |-> "" ],
      [ tag |-> "div", classes |-> {}, data_test_id |-> "post-content" ],
      [ tag |-> "article", classes |-> {}, data_test_id |-> "" ],
      [ tag |-> "main", classes |-> {}, data_test_id |-> "" ],
      [ tag |-> "div", classes |-> {}, data_test_id |-> "" ],
      [ tag |-> "article", classes |-> { "article-content" },
        data_test_id |-> "" ] }

\* the text of the <p> of the i-th element, when it has words
ParagraphAt(i) == << " ", "p", ToString(i), " ", "." >>

RECURSIVE AncestorsOrSelf(_, _)
\* the element at index i and the elements that contain it
AncestorsOrSelf(doc, i) ==
    IF i = 0 THEN {} ELSE { i } \cup AncestorsOrSelf(doc, doc[i].parent)

\* an element of an article page: one of the kinds, at the top (parent 0)
\* or inside an earlier element, holding no <p>, a blank <p>, or a <p> of
\* words
BodyElements ==
    { [ tag |-> k.tag, classes |-> k.classes, data_test_id |-> k.data_test_id,
        parent |-> q, p |-> t ] :
          k \in ElementKinds,
          q \in 0..(MaxElements - 1),
          t \in { Absent, << " " >> } \cup { ParagraphAt(i) : i \in 1..MaxElements } }

\* the elements are in document order: each one lies at the top or inside
\* an element still open, and its words carry its own index
WellFormed(doc) ==
    /\ \A i \in DOMAIN doc : doc[i].parent < i
    /\ \A i \in DOMAIN doc :
           /\ doc[i].parent \in { 0 } \cup AncestorsOrSelf(doc, i - 1)
           /\ doc[i].p \in { Absent, << " " >>, ParagraphAt(i) }

\* the first of the matching elements in document order, 0 (None) without
\* a match
FirstElement(matching) ==
    IF matching = {} THEN 0
    ELSE CHOOSE i \in matching : \A j \in matching : i <= j

\* soup.find(tag, class_=cls), line 82
find_class(doc, tag, cls) ==
    FirstElement({ i \in DOMAIN doc :
                     doc[i].tag = tag /\ cls \in doc[i].classes })

\* soup.find(sel), line 84
find(doc, tag) ==
    FirstElement({ i \in DOMAIN doc : doc[i].tag = tag })

\* soup.select_one('tag[attr="value"]'), line 77
select_one(doc, sel) ==
    FirstElement({ i \in DOMAIN doc :
                     /\ doc[i].tag = sel[1]
                     /\ sel[3] = "data-test-id"
                     /\ doc[i].data_test_id = sel[5] })

\* sel.split('.', 1), line 79
split_dot(sel) ==
    IF \E i \in DOMAIN sel : sel[i] = "."
    THEN LET i == CHOOSE i \in DOMAIN sel :
                      sel[i] = "." /\ \A j \in 1..(i - 1) : sel[j] # "."
         IN  << SubSeq(sel, 1, i - 1), SubSeq(sel, i + 1, Len(sel)) >>
    ELSE << sel >>

\* lines 76-84: what one selector finds
lookup(doc, sel) ==
    IF StartsWith(sel, << "div", "[" >>)
    THEN select_one(doc, sel)
    ELSE LET parts == split_dot(sel)
         IN  IF Len(parts) = 2
             THEN find_class(doc, parts[1][1], parts[2][1])
             ELSE find(doc, sel[1])

\* the loop of lines 75-86 without its break
select_body_NoBreak(doc, sels) ==
    [ body |-> IF sels = << >> THEN 0 ELSE lookup(doc, sels[Len(sels)]),
      consulted |-> Len(sels) ]

RECURSIVE select_body(_, _)
\* lines 74-86: article_body after the loop, and how many selectors the
\* loop looked up; a Tag is true whatever it holds
select_body(doc, sels) ==
    IF sels = << >> THEN [ body |-> 0, consulted |-> 0 ]
    ELSE LET article_body == lookup(doc, Head(sels))
         IN  IF article_body # 0
             THEN [ body |-> article_body, consulted |-> 1 ]
             ELSE LET later == select_body(doc, Tail(sels))
                  IN  [ body |-> later.body,
                        consulted |-> later.consulted + 1 ]

RECURSIVE paragraphs_from(_, _, _)
\* lines 88-93: the stripped text of each <p> inside article_body, in
\* document order, the empty ones left out
paragraphs_from(doc, article_body, i) ==
    IF article_body = 0 \/ i > Len(doc) THEN << >>
    ELSE LET text == IF article_body \in AncestorsOrSelf(doc, i)
                     THEN get_text_strip(doc[i].p)
                     ELSE << >>
         IN  ( IF text # << >> THEN << text >> ELSE << >> )
             \o paragraphs_from(doc, article_body, i + 1)

RECURSIVE join(_)
\* " ".join(parts), line 95
join(parts) ==
    IF parts = << >> THEN << >>
    ELSE IF Len(parts) = 1 THEN Head(parts)
    ELSE Head(parts) \o << " " >> \o join(Tail(parts))

\* lines 88-99
clean_text(doc, article_body) ==
    normalize(join(paragraphs_from(doc, article_body, 1)))

-----------------------------------------------------------------------------
(* run_scraper *)

NoFetch == [ kind |-> "none", cat |-> 0, page |-> 0, url |-> << >>, ok |-> TRUE ]

BodyIdle ==
    /\ eb_doc = << >> /\ eb_body = 0 /\ eb_consulted = 0
    /\ eb_text = << >> /\ eb_pc = "idle"
NormIdle ==
    nt_in = << >> /\ nt_once = << >> /\ nt_twice = << >> /\ nt_pc = "idle"

CrawlIdle ==
    /\ ph_url = << >> /\ ph_html = None /\ ph_prefix = NoPrefix
    /\ ph_links = {} /\ ph_pc = "idle"
    /\ ea_doc = << >> /\ ea_author = << >> /\ ea_pc = "idle"
    /\ BodyIdle /\ NormIdle

\* the stop of range(1, 334)
range_stop == 334

\* lines 111-114: the state in which the category loop is entered
CrawlStart ==
    /\ pc = IF categories = << >> THEN "summary" ELSE "fetch_page"
    /\ ci = 1
    /\ page = 1
    /\ scraped_urls = {}
    /\ record_counter = 1
    /\ out_f = << >>
    /\ html = None
    /\ article_urls = {}
    /\ new_urls = << >>
    /\ lastFetch = NoFetch
    /\ fetchStatus = [ u \in ArticleUrls |-> "never" ]
    /\ attempted = {}
    /\ stopReason = [ i \in 1..Len(categories) |-> "running" ]
    /\ summary = -1
    /\ CrawlIdle

\* short crawls: every category list up to MaxCategories, pages 1..MaxPage
Init ==
    /\ categories \in CategoryLists
    /\ last_page = MaxPage
    /\ CrawlStart

\* the crawl of one category over the whole range of pages
FullRangeInit ==
    /\ categories = << CategoryAt(1) >>
    /\ last_page = range_stop - 1
    /\ CrawlStart

page_url == PageUrl(categories[ci], page)

\* the call fetch_html(url) and what it returned
Fetched(kind, url, text) ==
    [ kind |-> kind, cat |-> ci, page |-> page, url |-> url, ok |-> ~ Not(text) ]

Again(status) == IF status = "never" THEN "once" ELSE "again"

\* line 123: "Fetching page {page}" of the current category
Attempt == IF page = 1 THEN attempted \cup { ci } ELSE attempted

\* "break" out of the page loop: the category loop takes the next category,
\* or ends and control reaches the final print
EndCategory(reason) ==
    /\ stopReason' = [ stopReason EXCEPT ![ci] = reason ]
    /\ IF ci < Len(categories)
         THEN ci' = ci + 1 /\ page' = 1 /\ pc' = "fetch_page"
         ELSE ci' = ci /\ page' = page /\ pc' = "summary"

\* line 130 without its filter
NewUrls_Unfiltered(links, seen) == links

NewUrls(links, seen) == { u \in links : u \notin seen }

\* lines 125-127 with the page loop going on to the next page
ListingFetchFails_Continue ==
    /\ pc = "fetch_page"
    /\ html' \in { None, EmptyText }
    /\ lastFetch' = Fetched("listing", page_url, html')
    /\ attempted' = Attempt
    /\ new_urls' = << >>
    /\ pc' = "articles"
    /\ UNCHANGED << categories, last_page, ci, page, scraped_urls, record_counter, out_f,
                    article_urls, fetchStatus, stopReason, summary >>
    /\ UNCHANGED << phVars, eaVars, ebVars, ntVars >>

\* lines 124-127 with the RequestException of fetch_html left uncaught
ListingFetchFails_Raises ==
    /\ pc = "fetch_page"
    /\ lastFetch' = Fetched("listing", page_url, None)
    /\ attempted' = Attempt
    /\ pc' = "raised"
    /\ UNCHANGED << categories, last_page, ci, page, scraped_urls, record_counter, out_f,
                    html, article_urls, new_urls, fetchStatus, stopReason, summary >>
    /\ UNCHANGED << phVars, eaVars, ebVars, ntVars >>

ListingFetchFails ==
    /\ pc = "fetch_page"
    /\ html' \in { None, EmptyText }
    /\ lastFetch' = Fetched("listing", page_url, html')
    /\ attempted' = Attempt
    /\ EndCategory("fetch_failed")
    /\ UNCHANGED << categories, last_page, scraped_urls, record_counter, out_f, article_urls,
                    new_urls, fetchStatus, summary >>
    /\ UNCHANGED << phVars, eaVars, ebVars, ntVars >>

\* lines 132-134 without the break: the empty list is iterated and the page
\* loop goes on
ListingNoNewUrls_NoBreak ==
    /\ pc = "fetch_page"
    /\ html' \in ListingPages
    /\ lastFetch' = Fetched("listing", page_url, html')
    /\ attempted' = Attempt
    /\ article_urls' = parse_homepage(page_url, html', allowed_prefix)
    /\ NewUrls(article_urls', scraped_urls) = {}
    /\ new_urls' = << >>
    /\ stopReason' = [ stopReason EXCEPT ![ci] = "no_new_urls" ]
    /\ pc' = "articles"
    /\ UNCHANGED << categories, last_page, ci, page, scraped_urls, record_counter, out_f,
                    fetchStatus, summary >>
    /\ UNCHANGED << phVars, eaVars, ebVars, ntVars >>

ListingNoNewUrls ==
    /\ pc = "fetch_page"
    /\ html' \in ListingPages
    /\ lastFetch' = Fetched("listing", page_url, html')
    /\ attempted' = Attempt
    /\ article_urls' = parse_homepage(page_url, html', allowed_prefix)
    /\ NewUrls(article_urls', scraped_urls) = {}
    /\ new_urls' = << >>
    /\ EndCategory("no_new_urls")
    /\ UNCHANGED << categories, last_page, scraped_urls, record_counter, out_f,
                    fetchStatus, summary >>
    /\ UNCHANGED << phVars, eaVars, ebVars, ntVars >>

ListingNewUrls ==
    /\ pc = "fetch_page"
    /\ html' \in ListingPages
    /\ lastFetch' = Fetched("listing", page_url, html')
    /\ attempted' = Attempt
    /\ article_urls' = parse_homepage(page_url, html', allowed_prefix)
    /\ NewUrls(article_urls', scraped_urls) # {}
    /\ new_urls' \in Perms(NewUrls(article_urls', scraped_urls))
    /\ pc' = "articles"
    /\ UNCHANGED << categories, last_page, ci, page, scraped_urls, record_counter, out_f,
                    fetchStatus, stopReason, summary >>
    /\ UNCHANGED << phVars, eaVars, ebVars, ntVars >>

\* lines 140-141 with break in place of continue
ArticleFetchFails_Break ==
    /\ pc = "articles"
    /\ new_urls # << >>
    /\ \E art_html \in { None, EmptyText } :
          lastFetch' = Fetched("article", Head(new_urls), art_html)
    /\ fetchStatus' = [ fetchStatus EXCEPT ![Head(new_urls)] = Again(@) ]
    /\ new_urls' = << >>
    /\ UNCHANGED << categories, last_page, pc, ci, page, scraped_urls, record_counter, out_f,
                    html, article_urls, attempted, stopReason, summary >>
    /\ UNCHANGED << phVars, eaVars, ebVars, ntVars >>

\* lines 140-141 with the url marked seen although nothing was written
ArticleFetchFails_MarksSeen ==
    /\ pc = "articles"
    /\ new_urls # << >>
    /\ \E art_html \in { None, EmptyText } :
          lastFetch' = Fetched("article", Head(new_urls), art_html)
    /\ fetchStatus' = [ fetchStatus EXCEPT ![Head(new_urls)] = Again(@) ]
    /\ scraped_urls' = scraped_urls \cup { Head(new_urls) }
    /\ new_urls' = Tail(new_urls)
    /\ UNCHANGED << categories, last_page, pc, ci, page, record_counter, out_f,
                    html, article_urls, attempted, stopReason, summary >>
    /\ UNCHANGED << phVars, eaVars, ebVars, ntVars >>

ArticleFetchFails ==
    /\ pc = "articles"
    /\ new_urls # << >>
    /\ \E art_html \in { None, EmptyText } :
          lastFetch' = Fetched("article", Head(new_urls), art_html)
    /\ fetchStatus' = [ fetchStatus EXCEPT ![Head(new_urls)] = Again(@) ]
    /\ new_urls' = Tail(new_urls)
    /\ UNCHANGED << categories, last_page, pc, ci, page, scraped_urls, record_counter, out_f,
                    html, article_urls, attempted, stopReason, summary >>
    /\ UNCHANGED << phVars, eaVars, ebVars, ntVars >>

\* the record of lines 143-152: the id carries record_counter; the fields
\* extract_article fills are left out here, the author chain is modelled above
Record(article_url) ==
    [ id |-> record_counter, source |-> domain, url |-> article_url ]

\* lines 143-155 without the increment of line 155
ArticleFetchOk_NoIncrement ==
    /\ pc = "articles"
    /\ new_urls # << >>
    /\ LET article_url == Head(new_urls)
       IN  /\ lastFetch' = Fetched("article", article_url, Html(<< >>))
           /\ fetchStatus' = [ fetchStatus EXCEPT ![article_url] = Again(@) ]
           /\ out_f' = Append(out_f, Record(article_url))
           /\ scraped_urls' = scraped_urls \cup { article_url }
    /\ new_urls' = Tail(new_urls)
    /\ UNCHANGED << categories, last_page, pc, ci, page, record_counter, html, article_urls,
                    attempted, stopReason, summary >>
    /\ UNCHANGED << phVars, eaVars, ebVars, ntVars >>

\* lines 143-155 with the file opened for writing anew at each record
ArticleFetchOk_Rewrites ==
    /\ pc = "articles"
    /\ new_urls # << >>
    /\ LET article_url == Head(new_urls)
       IN  /\ lastFetch' = Fetched("article", article_url, Html(<< >>))
           /\ fetchStatus' = [ fetchStatus EXCEPT ![article_url] = Again(@) ]
           /\ out_f' = << Record(article_url) >>
           /\ scraped_urls' = scraped_urls \cup { article_url }
           /\ record_counter' = record_counter + 1
    /\ new_urls' = Tail(new_urls)
    /\ UNCHANGED << categories, last_page, pc, ci, page, html, article_urls, attempted,
                    stopReason, summary >>
    /\ UNCHANGED << phVars, eaVars, ebVars, ntVars >>

ArticleFetchOk ==
    /\ pc = "articles"
    /\ new_urls # << >>
    /\ LET article_url == Head(new_urls)
       IN  /\ lastFetch' = Fetched("article", article_url, Html(<< >>))
           /\ fetchStatus' = [ fetchStatus EXCEPT ![article_url] = Again(@) ]
           /\ out_f' = Append(out_f, Record(article_url))
           /\ scraped_urls' = scraped_urls \cup { article_url }
           /\ record_counter' = record_counter + 1
    /\ new_urls' = Tail(new_urls)
    /\ UNCHANGED << categories, last_page, pc, ci, page, html, article_urls, attempted,
                    stopReason, summary >>
    /\ UNCHANGED << phVars, eaVars, ebVars, ntVars >>

\* the page loop with a range that includes its stop
NextPage_OffByOne ==
    /\ pc = "articles"
    /\ new_urls = << >>
    /\ IF page <= last_page
         THEN page' = page + 1 /\ pc' = "fetch_page" /\ UNCHANGED << ci, stopReason >>
         ELSE EndCategory("page_bound")
    /\ UNCHANGED << categories, last_page, scraped_urls, record_counter, out_f,
                    html, article_urls, new_urls, lastFetch, fetchStatus,
                    attempted, summary >>
    /\ UNCHANGED << phVars, eaVars, ebVars, ntVars >>

\* the page loop stopping a category whose page gave no record
NextPage_StopsWithoutRecord ==
    /\ pc = "articles"
    /\ new_urls = << >>
    /\ IF page < last_page /\ article_urls \cap scraped_urls # {}
         THEN page' = page + 1 /\ pc' = "fetch_page" /\ UNCHANGED << ci, stopReason >>
         ELSE EndCategory("page_bound")
    /\ UNCHANGED << categories, last_page, scraped_urls, record_counter, out_f, html,
                    article_urls, new_urls, lastFetch, fetchStatus, attempted,
                    summary >>
    /\ UNCHANGED << phVars, eaVars, ebVars, ntVars >>

\* the article loop is over: next value of "page", or the range is exhausted
NextPage ==
    /\ pc = "articles"
    /\ new_urls = << >>
    /\ IF page < last_page
         THEN page' = page + 1 /\ pc' = "fetch_page" /\ UNCHANGED << ci, stopReason >>
         ELSE EndCategory("page_bound")
    /\ UNCHANGED << categories, last_page, scraped_urls, record_counter, out_f, html,
                    article_urls, new_urls, lastFetch, fetchStatus, attempted,
                    summary >>
    /\ UNCHANGED << phVars, eaVars, ebVars, ntVars >>

\* line 157 printing the counter in place of the size of the set
Summary_PrintsCounter ==
    /\ pc = "summary"
    /\ summary' = record_counter
    /\ pc' = "done"
    /\ UNCHANGED << categories, last_page, ci, page, scraped_urls, record_counter, out_f,
                    html, article_urls, new_urls, lastFetch, fetchStatus,
                    attempted, stopReason >>
    /\ UNCHANGED << phVars, eaVars, ebVars, ntVars >>

Summary ==
    /\ pc = "summary"
    /\ summary' = Cardinality(scraped_urls)
    /\ pc' = "done"
    /\ UNCHANGED << categories, last_page, ci, page, scraped_urls, record_counter, out_f,
                    html, article_urls, new_urls, lastFetch, fetchStatus,
                    attempted, stopReason >>
    /\ UNCHANGED << phVars, eaVars, ebVars, ntVars >>

Next ==
    \/ ListingFetchFails
    \/ ListingNoNewUrls
    \/ ListingNewUrls
    \/ ArticleFetchFails
    \/ ArticleFetchOk
    \/ NextPage
    \/ Summary

Spec == Init /\ [][Next]_vars

FullRangeSpec == FullRangeInit /\ [][Next]_vars

\* fetch_html returns within its timeout, so run_scraper keeps taking steps
FairSpec == Spec /\ WF_vars(Next)

-----------------------------------------------------------------------------
(* Properties of run_scraper *)

\* this step called fetch_html
FetchStep == lastFetch' # lastFetch
ListingStep == FetchStep /\ lastFetch'.kind = "listing"
ArticleStep == FetchStep /\ lastFetch'.kind = "article"

\* the page loop of the current category ended in this step, and the category
\* loop went on: to page 1 of the next category, or past the last category
MovesOn ==
    IF ci < Len(categories)
    THEN ci' = ci + 1 /\ page' = 1 /\ pc' = "fetch_page"
    ELSE pc' = "summary"

\* C1: no two records written to the output have the same url.
C1_UniqueUrls ==
    \A i, j \in DOMAIN out_f : out_f[i].url = out_f[j].url => i = j

\* a later category lists a url already written and a url not yet written
C1_Witness ==
    /\ pc = "articles"
    /\ ci = 2
    /\ article_urls \cap scraped_urls # {}
    /\ new_urls # << >>
    /\ \E i \in DOMAIN out_f : out_f[i].url \in article_urls

\* C2: fetch_html is called at most once for each article url in a run.
C2_FetchedAtMostOnce ==
    \A u \in ArticleUrls : fetchStatus[u] # "again"

\* C3: when parse_homepage yields no url outside scraped_urls, the step
\* fetches no article, the category's page loop ends, the run goes on with
\* the next category, and no fetch is issued later for the stopped category.
C3_StopsOnNoNewUrls ==
    /\ [][ ( ListingStep /\ lastFetch'.ok
             /\ NewUrls(article_urls', scraped_urls) = {} )
           => ( /\ new_urls' = << >>
                /\ fetchStatus' = fetchStatus
                /\ stopReason'[ci] = "no_new_urls"
                /\ MovesOn ) ]_vars
    /\ [][ FetchStep => stopReason[lastFetch'.cat] # "no_new_urls" ]_vars

\* a page whose only allowed link was already written stopped the first of
\* two categories, and the second is being crawled
C3_Witness ==
    /\ Len(categories) = 2
    /\ stopReason[1] = "no_new_urls"
    /\ pc = "fetch_page" /\ ci = 2 /\ page = 1
    /\ lastFetch.cat = 1 /\ lastFetch.kind = "listing" /\ lastFetch.page > 1
    /\ article_urls # {}
    /\ article_urls \subseteq scraped_urls

\* C4: a failed article fetch writes nothing and leaves out_f, scraped_urls
\* and record_counter as they were; the rest of new_urls is still iterated,
\* each url leaving the list only by being fetched; and the page loop then
\* goes on with the next page of the same category (while a next page exists).
C4_ArticleFailureSkipsOneUrl ==
    /\ [][ ( ArticleStep /\ ~ lastFetch'.ok )
           => ( /\ UNCHANGED << out_f, scraped_urls, record_counter >>
                /\ new_urls' = Tail(new_urls)
                /\ UNCHANGED << pc, ci, page, stopReason >> ) ]_vars
    /\ [][ ( pc = "articles" /\ new_urls # << >> )
           => ( /\ ArticleStep
                /\ lastFetch'.url = Head(new_urls)
                /\ new_urls' = Tail(new_urls) ) ]_vars
    /\ [][ ( pc = "articles" /\ new_urls = << >> /\ page < last_page )
           => ( pc' = "fetch_page" /\ page' = page + 1 /\ ci' = ci
                /\ stopReason' = stopReason ) ]_vars

\* of two new urls of page 1 one was written and the other's fetch failed,
\* and page 2 is about to be fetched
C4_Witness ==
    /\ pc = "fetch_page" /\ page = 2 /\ ci = 1
    /\ Cardinality(article_urls) = 2
    /\ Len(out_f) = 1
    /\ lastFetch.kind = "article" /\ ~ lastFetch.ok
    /\ lastFetch.url \notin scraped_urls

\* C5: a failed listing fetch ends the page loop of the current category
\* only: out_f and scraped_urls are unchanged, no fetch is issued later for
\* that category, the run goes on with page 1 of the next category, and at
\* the end page 1 of every category has been requested.
C5_ListingFailureStopsCategoryOnly ==
    /\ [][ ( ListingStep /\ ~ lastFetch'.ok )
           => ( /\ UNCHANGED << out_f, scraped_urls, record_counter, fetchStatus >>
                /\ stopReason'[ci] = "fetch_failed"
                /\ MovesOn ) ]_vars
    /\ [][ FetchStep => stopReason[lastFetch'.cat] # "fetch_failed" ]_vars
    /\ [][ lastFetch'.cat # lastFetch.cat
           => ( lastFetch'.kind = "listing" /\ lastFetch'.page = 1
                /\ lastFetch'.cat = lastFetch.cat + 1 ) ]_vars
    /\ [] ( pc = "done" => \A i \in DOMAIN stopReason :
                             stopReason[i] = "fetch_failed"
                             => \A j \in (i + 1)..Len(categories) : j \in attempted )

\* the first of two categories stopped on a failed listing fetch, and the
\* second category has since fetched and written an article
C5_Witness ==
    /\ Len(categories) = 2
    /\ stopReason[1] = "fetch_failed"
    /\ Len(out_f) = 2
    /\ ci = 2
    /\ lastFetch.kind = "article" /\ lastFetch.ok

\* C6: the run ends in the final summary, whatever the fetches return, and by
\* then page 1 of every category of the list has been requested.
C6_TerminatesAfterAllCategories ==
    /\ <> ( pc = "done" )
    /\ [] ( pc = "done" => attempted = 1..Len(categories) )

\* the run is over, and the listing fetch of the first of two categories and
\* an article fetch of the second both failed
C6_Witness ==
    /\ pc = "done"
    /\ Len(categories) = 2
    /\ stopReason[1] = "fetch_failed"
    /\ \E u \in ArticleUrls : fetchStatus[u] # "never" /\ u \notin scraped_urls
    /\ attempted = { 1, 2 }

\* C7: every record's url starts with allowed_prefix, and fetch_html is
\* called for no article url that lacks the prefix.
C7_AllowedPrefixOnly ==
    /\ \A i \in DOMAIN out_f : StartsWith(out_f[i].url, allowed_prefix)
    /\ \A u \in ArticleUrls :
         fetchStatus[u] # "never" => StartsWith(u, allowed_prefix)
    /\ lastFetch.kind = "article" => StartsWith(lastFetch.url, allowed_prefix)
    /\ \A i \in DOMAIN new_urls : StartsWith(new_urls[i], allowed_prefix)

\* the listing page held a link outside the prefix next to an article link,
\* and the article link was fetched and written
C7_Witness ==
    /\ pc = "articles"
    /\ html.kind = "str"
    /\ \E i \in DOMAIN html.anchors :
         /\ ~ find_parent(html.anchors[i], "footer")
         /\ ~ StartsWith(urljoin(page_url, html.anchors[i].href), allowed_prefix)
    /\ lastFetch.kind = "article" /\ lastFetch.ok
    /\ lastFetch.page = page /\ lastFetch.cat = ci
    /\ out_f # << >>

\* C13: the sequence numbers of the records are strictly increasing in the
\* order the records were written (hence unique), skipped urls or not.
C13_SequenceNumbersIncrease ==
    \A i, j \in DOMAIN out_f : i < j => out_f[i].id < out_f[j].id

\* two records are written, and the url of the second was fetched twice: its
\* first fetch failed and it was skipped
C13_Witness ==
    /\ Len(out_f) = 2
    /\ fetchStatus[out_f[2].url] = "again"
    /\ fetchStatus[out_f[1].url] = "once"

\* C14: the total of the summary line, the size of scraped_urls at the end,
\* is the number of records written.
C14_SummaryCountsRecords ==
    pc = "done" => summary = Len(out_f)

\* the run is over with one record written and another url fetched in vain
C14_Witness ==
    /\ pc = "done"
    /\ summary = 1
    /\ \E u \in ArticleUrls : fetchStatus[u] # "never" /\ u \notin scraped_urls

\* C15: every step leaves out_f as it is or appends one record to it.
C15_AppendOnly ==
    [][ \/ out_f' = out_f
        \/ /\ Len(out_f') = Len(out_f) + 1
           /\ SubSeq(out_f', 1, Len(out_f)) = out_f ]_vars

\* a second record has just been appended after the first
C15_Witness ==
    /\ Len(out_f) = 2
    /\ lastFetch.kind = "article" /\ lastFetch.ok
    /\ lastFetch.url = out_f[2].url

\* C16: fetch_html is called for no article url that is in scraped_urls.
C16_NoFetchOfSeenUrl ==
    [][ ArticleStep => lastFetch'.url \notin scraped_urls ]_vars

\* page 2 lists a url written from page 1 next to a new one, and only the new
\* one was fetched
C16_Witness ==
    /\ pc = "articles" /\ ci = 1 /\ page = 2
    /\ lastFetch.kind = "article" /\ lastFetch.page = 2
    /\ Cardinality(article_urls) = 2
    /\ \A u \in article_urls : fetchStatus[u] = "once"
    /\ \E u \in article_urls \cap scraped_urls : u # lastFetch.url

\* page 1 of a category is its root url, page n > 1 the root followed by
\* page/<n>/
ListingUrl(category, n) ==
    IF n = 1
    THEN << "https://techcrunch.com", "/", "category/", category, "/" >>
    ELSE << "https://techcrunch.com", "/", "category/", category, "/",
            "page/", ToString(n), "/" >>

\* C17: the listing pages of a category are fetched in the order 1, 2, 3, ...
\* without gaps, each at its url, none beyond page 333; after the articles of
\* page 333 the category stops, new urls or not.
C17_PagesInOrderUpTo333 ==
    /\ [] ( lastFetch.kind = "listing"
            => /\ lastFetch.page \in 1..333
               /\ lastFetch.url = ListingUrl(categories[lastFetch.cat], lastFetch.page) )
    /\ [][ ListingStep
           => lastFetch'.page = IF lastFetch'.cat # lastFetch.cat
                                THEN 1 ELSE lastFetch.page + 1 ]_vars
    /\ [][ ( pc = "articles" /\ new_urls = << >> /\ page = 333 )
           => ( stopReason'[ci] = "page_bound" /\ MovesOn ) ]_vars

\* page 333 still gave a new url, it was fetched, and the category stopped
C17_Witness ==
    /\ stopReason = << "page_bound" >>
    /\ lastFetch.kind = "article" /\ lastFetch.page = 333
    /\ pc = "summary"

\* C18: between the steps of run_scraper scraped_urls is the set of the urls
\* of the records written, record_counter is their number plus one, and the
\* k-th record carries the sequence number k.
C18_SeenSetIsWrittenUrls ==
    /\ scraped_urls = { out_f[i].url : i \in DOMAIN out_f }
    /\ record_counter = Len(out_f) + 1
    /\ \A k \in DOMAIN out_f : out_f[k].id = k

\* one url was written and the fetch of another failed: the failed one is not
\* in scraped_urls
C18_Witness ==
    /\ Len(out_f) = 1
    /\ lastFetch.kind = "article" /\ ~ lastFetch.ok
    /\ lastFetch.url \notin scraped_urls
    /\ record_counter = 2

\* C19: a listing page with a url outside scraped_urls does not end the
\* category, whatever its article fetches return: no article fetch ends the
\* page loop, and after the last of them the next page is fetched (while a
\* next page exists).
C19_NewUrlsKeepCategoryGoing ==
    /\ [][ ( ListingStep /\ lastFetch'.ok
             /\ NewUrls(article_urls', scraped_urls) # {} )
           => ( /\ pc' = "articles"
                /\ new_urls' # << >>
                /\ UNCHANGED << ci, page, stopReason >> ) ]_vars
    /\ [][ ArticleStep => ( pc' = "articles" /\ UNCHANGED << ci, page, stopReason >> ) ]_vars
    /\ [][ ( pc = "articles" /\ new_urls = << >> /\ page < last_page )
           => ( /\ pc' = "fetch_page" /\ page' = page + 1
                /\ UNCHANGED << ci, stopReason, out_f, scraped_urls >> ) ]_vars

\* both article fetches of page 1 failed, nothing is written, and page 2 has
\* been fetched
C19_Witness ==
    /\ out_f = << >>
    /\ lastFetch.kind = "listing" /\ lastFetch.page = 2 /\ lastFetch.cat = 1
    /\ \E u, v \in ArticleUrls :
         u # v /\ fetchStatus[u] = "once" /\ fetchStatus[v] = "once"

-----------------------------------------------------------------------------
(* One call of parse_homepage *)

CrawlOff ==
    /\ categories = << >> /\ last_page = MaxPage
    /\ pc = "off" /\ ci = 1 /\ page = 1
    /\ scraped_urls = {} /\ record_counter = 1 /\ out_f = << >>
    /\ html = None /\ article_urls = {} /\ new_urls = << >>
    /\ lastFetch = NoFetch
    /\ fetchStatus = [ u \in ArticleUrls |-> "never" ]
    /\ attempted = {} /\ stopReason = << >> /\ summary = -1

ParseInit ==
    /\ CrawlOff
    /\ ph_url \in { PageUrl("startups", 1), PageUrl("venture", 2) }
    /\ ph_html \in Documents
    /\ ph_prefix \in { NoPrefix, allowed_prefix }
    /\ ph_links = {}
    /\ ph_pc = "call"
    /\ ea_doc = << >> /\ ea_author = << >> /\ ea_pc = "idle"
    /\ BodyIdle /\ NormIdle

ParseHomepage ==
    /\ ph_pc = "call"
    /\ ph_links' = parse_homepage(ph_url, ph_html, ph_prefix)
    /\ ph_pc' = "returned"
    /\ UNCHANGED << ph_url, ph_html, ph_prefix >>
    /\ UNCHANGED << crawlVars, eaVars, ebVars, ntVars >>

ParseNext == ParseHomepage

ParseSpec == ParseInit /\ [][ParseNext]_vars

\* the anchor has a footer among the tags enclosing it
InFooter(a) == \E k \in 1..Len(a.ancestors) : a.ancestors[k] = "footer"

\* anchor i of the document has an href, and its resolved url passes the
\* prefix filter of the call
Candidate(i) ==
    /\ ph_html.anchors[i].href # NoHref
    /\ ph_prefix = NoPrefix
         \/ StartsWith(urljoin(ph_url, ph_html.anchors[i].href), ph_prefix)

\* C8: every url parse_homepage returns is the resolved href of an anchor
\* that is inside no footer, at any depth; and every anchor outside all
\* footers whose url passes the prefix filter is in the result, whatever
\* footers the page has.
C8_FooterLinksExcluded ==
    ph_pc = "returned" =>
      /\ \A u \in ph_links :
           \E i \in DOMAIN ph_html.anchors :
             /\ ~ InFooter(ph_html.anchors[i])
             /\ Candidate(i)
             /\ urljoin(ph_url, ph_html.anchors[i].href) = u
      /\ \A i \in DOMAIN ph_html.anchors :
           ( Candidate(i) /\ ~ InFooter(ph_html.anchors[i]) )
             => urljoin(ph_url, ph_html.anchors[i].href) \in ph_links

\* a page with an allowed link nested two levels inside a footer and another
\* allowed link outside: only the second is returned
C8_Witness ==
    /\ ph_pc = "returned"
    /\ ph_prefix = allowed_prefix
    /\ \E i, j \in DOMAIN ph_html.anchors :
         /\ InFooter(ph_html.anchors[i])
         /\ ph_html.anchors[i].ancestors[1] # "footer"
         /\ Candidate(i)
         /\ urljoin(ph_url, ph_html.anchors[i].href) \notin ph_links
         /\ ~ InFooter(ph_html.anchors[j])
         /\ urljoin(ph_url, ph_html.anchors[j].href) \in ph_links

-----------------------------------------------------------------------------
(* One call of extract_article *)

AuthorInit ==
    /\ CrawlOff
    /\ ph_url = << >> /\ ph_html = None /\ ph_prefix = NoPrefix
    /\ ph_links = {} /\ ph_pc = "idle"
    /\ ea_doc \in ArticlePages
    /\ ea_author = << >>
    /\ ea_pc = "call"
    /\ BodyIdle /\ NormIdle

ExtractArticle ==
    /\ ea_pc = "call"
    /\ ea_author' = extract_author(ea_doc)
    /\ ea_pc' = "returned"
    /\ UNCHANGED ea_doc
    /\ UNCHANGED << crawlVars, phVars, ebVars, ntVars >>

AuthorNext == ExtractArticle

AuthorSpec == AuthorInit /\ [][AuthorNext]_vars

\* the first non-empty string of a list of step results, else the empty string
RECURSIVE FirstNonEmpty(_)
FirstNonEmpty(results) ==
    IF results = << >> THEN << >>
    ELSE IF Head(results) # << >> THEN Head(results)
    ELSE FirstNonEmpty(Tail(results))

\* C9: the author is the result of the first of the four steps, in order,
\* whose result is non-empty, and is empty only if all four are empty.
C9_FirstNonEmptyStepWins ==
    ea_pc = "returned" =>
      ea_author = FirstNonEmpty(<< step1_meta(ea_doc), step2_rel_author(ea_doc),
                                   step3_byline_link(ea_doc), step4_by_text(ea_doc) >>)

\* a name: not empty, no white space at either end
IsName(n) == n # << >> /\ n = strip(n)

\* C10: when step 4 gives the author, the text "By N" gives exactly N.
C10_ByPrefixOnlyStripped ==
    ( /\ ea_pc = "returned"
      /\ step1_meta(ea_doc) = << >> /\ ea_doc.meta \in { Absent, << >> }
      /\ step2_rel_author(ea_doc) = << >>
      /\ step3_byline_link(ea_doc) = << >>
      /\ ea_doc.text # Absent )
    => \A n \in Texts :
         ( IsName(n) /\ ea_doc.text = << "B", "y", " " >> \o n ) => ea_author = n

-----------------------------------------------------------------------------
(* The text normalisation applied to a string, and again to its result *)

NormChars == { " ", "\n", ".", "(", ")", "a" }

NormInit ==
    /\ CrawlOff
    /\ ph_url = << >> /\ ph_html = None /\ ph_prefix = NoPrefix
    /\ ph_links = {} /\ ph_pc = "idle"
    /\ ea_doc = << >> /\ ea_author = << >> /\ ea_pc = "idle"
    /\ BodyIdle
    /\ nt_in \in SeqsUpTo(NormChars, MaxNorm)
    /\ nt_once = << >> /\ nt_twice = << >>
    /\ nt_pc = "raw"

Normalize ==
    /\ nt_pc = "raw"
    /\ nt_once' = normalize(nt_in)
    /\ nt_pc' = "once"
    /\ UNCHANGED << nt_in, nt_twice >>
    /\ UNCHANGED << crawlVars, phVars, eaVars, ebVars >>

NormalizeAgain ==
    /\ nt_pc = "once"
    /\ nt_twice' = normalize(nt_once)
    /\ nt_pc' = "twice"
    /\ UNCHANGED << nt_in, nt_once >>
    /\ UNCHANGED << crawlVars, phVars, eaVars, ebVars >>

NormNext == Normalize \/ NormalizeAgain

NormSpec == NormInit /\ [][NormNext]_vars

\* C12: the four rules applied to an already normalised string return it
\* unchanged.
C12_NormalizeIdempotent ==
    nt_pc = "twice" => nt_twice = nt_once

\* a string that every rule changes, normalised twice
C12_Witness ==
    /\ nt_pc = "twice"
    /\ nt_in = << "(", " ", "a", "\n", " ", ")" >>
    /\ nt_once = << "(", "a", ")" >>
    /\ nt_twice = nt_once

-----------------------------------------------------------------------------
(* The body container and clean_text of extract_article on one page *)

BodyInit ==
    /\ CrawlOff
    /\ ph_url = << >> /\ ph_html = None /\ ph_prefix = NoPrefix
    /\ ph_links = {} /\ ph_pc = "idle"
    /\ ea_doc = << >> /\ ea_author = << >> /\ ea_pc = "idle"
    /\ NormIdle
    /\ \E n \in 0..MaxElements :
           /\ eb_doc \in [ 1..n -> BodyElements ]
           /\ WellFormed(eb_doc)
    /\ eb_body = 0 /\ eb_consulted = 0
    /\ eb_text = << >>
    /\ eb_pc = "call"

ExtractBody ==
    /\ eb_pc = "call"
    /\ LET chosen == select_body(eb_doc, selectors)
       IN  /\ eb_body' = chosen.body
           /\ eb_consulted' = chosen.consulted
           /\ eb_text' = clean_text(eb_doc, chosen.body)
    /\ eb_pc' = "done"
    /\ UNCHANGED eb_doc
    /\ UNCHANGED << crawlVars, phVars, eaVars, ntVars >>

BodyNext == ExtractBody

BodySpec == BodyInit /\ [][BodyNext]_vars

\* what selector number k of the fixed order matches
Matches(e, k) ==
    CASE k = 1 -> e.tag = "div" /\ "article-content" \in e.classes
      [] k = 2 -> e.tag = "div" /\ "article__content" \in e.classes
      [] k = 3 -> e.tag = "div" /\ "article-content__container" \in e.classes
      [] k = 4 -> e.tag = "div" /\ e.data_test_id = "post-content"
      [] k = 5 -> e.tag = "article"
      [] k = 6 -> e.tag = "main"

MatchedBy(k) == { i \in DOMAIN eb_doc : Matches(eb_doc[i], k) }
Matching == { k \in 1..6 : MatchedBy(k) # {} }
Earliest == CHOOSE k \in Matching : \A m \in Matching : k <= m
Characters(text) == { text[n] : n \in DOMAIN text }

\* C11: the body is the first element matched by the earliest selector of
\* the fixed order that matches the page, no later selector is looked up,
\* and the text holds the words of exactly the paragraphs inside that body;
\* a page that no selector matches has no body and an empty text.
C11_EarliestSelectorWins ==
    eb_pc = "done" =>
        IF Matching = {}
        THEN eb_body = 0 /\ eb_consulted = 6 /\ eb_text = << >>
        ELSE /\ eb_body \in MatchedBy(Earliest)
             /\ \A i \in MatchedBy(Earliest) : eb_body <= i
             /\ eb_consulted = Earliest
             /\ \A i \in DOMAIN eb_doc :
                    ToString(i) \in Characters(eb_text)
                    <=> /\ eb_body \in AncestorsOrSelf(eb_doc, i)
                        /\ eb_doc[i].p = ParagraphAt(i)

\* a page that matches selector 5 first and selector 3 after it: the body
\* is the later element, and the words of the <article> are left out
C11_Witness ==
    /\ eb_pc = "done"
    /\ Len(eb_doc) = 2
    /\ eb_doc[1].tag = "article" /\ eb_doc[1].p = ParagraphAt(1)
    /\ Matches(eb_doc[2], 3) /\ eb_doc[2].parent = 0
    /\ eb_doc[2].p = ParagraphAt(2)
    /\ eb_body = 2 /\ eb_consulted = 3
    /\ eb_text = << "p", "2", "." >>

=============================================================================
